---- MODULE Spec2Model ----
(***************************************************************************)
(* Argument streams of redis-go (args.go): argsError, argsReader and       *)
(* byteArgsReader, the helpers built on them (ParseArgs, Int, Int64,       *)
(* String), the pipelined exchange the server test drives through them,    *)
(* and the server's Serve and Shutdown and the transport's connection      *)
(* pool as the server test uses them.                                      *)
(*                                                                         *)
(* A stream reads from a parser positioned in a sequence of RESP tokens.   *)
(* The objconv StreamDecoder the streams embed is modelled by its          *)
(* contract (sticky error, End reported as no error, Len 0 once in error). *)
(***************************************************************************)
EXTENDS Integers, Sequences, FiniteSets, TLC

\* Longest argument list the stream specification enumerates.
MaxLen == 2
\* Number of Close calls (direct or through ParseArgs) on one stream.
MaxCloses == 2

VARIABLES
    kind,       \* "argsError" | "argsReader" | "byteArgsReader"
    hasDone,    \* whether the stream was built with a completion channel
    tokens,     \* the RESP tokens the stream's parser reads
    st,         \* the stream: [dec |-> StreamDecoder, err |-> args.err]
    onceDone,   \* sync.Once: the done flag
    onceMu,     \* sync.Once: the mutex holder, or "free"
    pc,         \* position of each Close caller
    ranBody,    \* whether the caller's Close ran the once body
    sent,       \* the values sent on the completion channel, in order
    closeRets,  \* the values returned by the Close calls, in order
    nCloses,    \* Close calls started
    lastNext,   \* outcome of the latest Next call
    firstFail,  \* outcome of the first Next call that returned false
    parse,      \* outcome of the latest ParseArgs call
    \* one pipelined connection between a client transport and the server
    c2s,        \* the tokens written by the client, in order
    s2c,        \* the tokens written by the server, in order
    srv,        \* the server's dispatch loop on the connection
    cpc,        \* position of each client of the connection
    pending,    \* the connection's queue of pending calls
    rd,         \* the connection's reader loop
    it,         \* the reply stream handed to the caller being served
    written,    \* the clients in the order their requests were written
    delivered,  \* the clients in the order replies were handed out
    frameStart, \* where each reply frame starts in s2c
    obs,        \* what each client saw of its reply
    \* a server: its Serve loop, its connections and a Shutdown call
    serve,      \* the Serve loop: where it stands and what it returned
    lastAccept, \* what the latest Accept of the listener returned
    nAccepts,   \* Accept calls made
    listening,  \* whether the listener is still open
    conns,      \* the dispatch loop of each accepted connection
    shut,       \* the Shutdown call
    \* a transport's pool of connections to one address
    limit,      \* ConnsPerHost
    idle,       \* open connections no request holds
    inuse,      \* open connections held by a request
    req         \* position of each request

streamVars == <<kind, hasDone, tokens, st, onceDone, onceMu, pc, ranBody, sent,
                closeRets, nCloses, lastNext, firstFail, parse>>

connVars == <<c2s, s2c, srv, cpc, pending, rd, it, written, delivered,
              frameStart, obs>>

serverVars == <<serve, lastAccept, nAccepts, listening, conns, shut>>

poolVars == <<limit, idle, inuse, req>>

vars == <<streamVars, connVars, serverVars, poolVars>>

Threads == {"handler", "framework"}

----------------------------------------------------------------------------
(* RESP tokens and decoded values *)

Tok(t, num, v) == [t |-> t, num |-> num, v |-> v]
ArrTok(n) == Tok("arr", TRUE, n)
IntTok(n) == Tok("int", TRUE, n)
NumStrTok(n) == Tok("str", TRUE, n)      \* a bulk string holding the digits of n
TextTok == Tok("str", FALSE, 0)          \* a bulk string that is no number
ErrTok(e) == Tok("err", FALSE, e)        \* a RESP error value
BadTok == Tok("bad", FALSE, 0)           \* malformed or truncated input
BadErrTok == Tok("baderr", FALSE, 0)     \* an error line cut short

NoVal == Tok("none", FALSE, 0)

RespErr(e) == IF e = 1 THEN "E1" ELSE "E2"

Values == {IntTok(1), NumStrTok(300), TextTok, ErrTok(1), ErrTok(2), BadTok, BadErrTok}

RECURSIVE SeqsUpTo(_, _)
SeqsUpTo(S, n) ==
    IF n = 0 THEN {<<>>}
    ELSE LET shorter == SeqsUpTo(S, n - 1)
         IN shorter \cup {Append(s, x) : s \in {q \in shorter : Len(q) = n - 1}, x \in S}

----------------------------------------------------------------------------
(* objconv.StreamDecoder over the parser, as args.go uses it *)

NewDec == [err |-> "nil", typ |-> "Unknown", cnt |-> 0, max |-> 0, pos |-> 1]

\* The token under the parser; reading past the input fails like malformed input.
Peek(inp, d) == IF d.pos <= Len(inp) THEN inp[d.pos] ELSE BadTok

\* Parser.ParseType: the type of the next token, Unknown when it cannot be told.
ParseType(inp, d) ==
    LET t == Peek(inp, d).t
    IN CASE t = "arr" -> "Array"
         [] t = "int" -> "Int"
         [] t = "str" -> "String"
         [] t \in {"err", "baderr"} -> "Error"
         [] OTHER -> "Unknown"

\* First use of the decoder: an array header announces the count, any other
\* value is a stream of one.
DecInit(inp, d) ==
    LET tok == Peek(inp, d)
    IN IF tok.t = "bad" THEN [d EXCEPT !.err = "DecErr"]
       ELSE IF tok.t = "arr"
            THEN [d EXCEPT !.typ = "Array", !.max = tok.v, !.pos = @ + 1]
            ELSE [d EXCEPT !.typ = ParseType(inp, d), !.max = 1]

\* StreamDecoder.Len: 0 once in error, else the values left; initialises.
DecLen(inp, d) ==
    LET d1 == IF d.err = "nil" /\ d.typ = "Unknown" THEN DecInit(inp, d) ELSE d
    IN [d |-> d1, n |-> IF d1.err # "nil" THEN 0 ELSE d1.max - d1.cnt]

\* StreamDecoder.Err: End is the normal end of the stream, not an error.
StreamErr(d) == IF d.err = "End" THEN "nil" ELSE d.err

\* Decoding one token into a destination: "nil" discards, "error" is
\* &args.err, "bytes" is the scratch buffer of byteArgsReader.
ElemDecode(tok, dst) ==
    IF tok.t \in {"bad", "baderr"} THEN [e |-> "DecErr", val |-> NoVal]
    ELSE IF tok.t = "arr" THEN [e |-> "ConvErr", val |-> NoVal]
    ELSE IF dst = "nil" THEN [e |-> "nil", val |-> NoVal]
    ELSE IF \/ dst = "error" /\ tok.t = "err"
            \/ dst = "int" /\ tok.t = "int"
            \/ dst \in {"string", "bytes"} /\ tok.t = "str"
         THEN [e |-> "nil", val |-> tok]
         ELSE [e |-> "ConvErr", val |-> NoVal]

\* StreamDecoder.Decode: the error is sticky; a value is counted when decoded.
Decode(inp, d, dst) ==
    IF d.err # "nil" THEN [d |-> d, e |-> d.err, val |-> NoVal]
    ELSE LET d1 == IF d.typ = "Unknown" THEN DecInit(inp, d) ELSE d
         IN IF d1.err # "nil" THEN [d |-> d1, e |-> d1.err, val |-> NoVal]
            ELSE IF d1.cnt = d1.max
                 THEN [d |-> [d1 EXCEPT !.err = "End"], e |-> "End", val |-> NoVal]
                 ELSE LET r == ElemDecode(Peek(inp, d1), dst)
                      IN IF r.e = "nil"
                         THEN [d |-> [d1 EXCEPT !.cnt = @ + 1, !.pos = @ + 1],
                               e |-> "nil", val |-> r.val]
                         ELSE [d |-> [d1 EXCEPT !.err = r.e], e |-> r.e, val |-> NoVal]

----------------------------------------------------------------------------
(* args.go: the streams *)

NewStream(e) == [dec |-> NewDec, err |-> e]

\* The outcome of a Next call: the stream after it, what it returned, the
\* value stored in the destination (NoVal when none), and why it failed.
NextRes(s, ok, val, cause, e) == [s |-> s, ok |-> ok, val |-> val, cause |-> cause, e |-> e]

FailCause(e) == IF e = "End" THEN "exhausted" ELSE "decode"

\* Len without the test of args.err.
ArgsReaderLenNoErr(inp, s) ==
    LET l == DecLen(inp, s.dec) IN [s |-> [s EXCEPT !.dec = l.d], n |-> l.n]

\* argsReader.Len
ArgsReaderLen(inp, s) ==
    IF s.err # "nil" THEN [s |-> s, n |-> 0]
    ELSE LET l == DecLen(inp, s.dec) IN [s |-> [s EXCEPT !.dec = l.d], n |-> l.n]

\* argsReader.Next, the branch taken on a RESP error value: it is decoded
\* into args.err.
ArgsReaderNextError(inp, s, d1) ==
    LET r == Decode(inp, d1, "error")
    IN IF r.e = "nil"
       THEN NextRes([dec |-> r.d, err |-> RespErr(r.val.v)], FALSE, NoVal, "resp", RespErr(r.val.v))
       ELSE NextRes([dec |-> r.d, err |-> s.err], FALSE, NoVal, "decode", r.e)

\* argsReader.Next
ArgsReaderNext(inp, s, dst) ==
    IF s.err # "nil" THEN NextRes(s, FALSE, NoVal, "sticky", s.err)
    ELSE LET l == DecLen(inp, s.dec)
         IN IF l.n # 0 /\ ParseType(inp, l.d) = "Error"
            THEN ArgsReaderNextError(inp, s, l.d)
            ELSE LET r == Decode(inp, l.d, dst)
                 IN IF r.e = "nil"
                    THEN NextRes([s EXCEPT !.dec = r.d], TRUE, r.val, "none", "nil")
                    ELSE NextRes([s EXCEPT !.dec = r.d], FALSE, NoVal, FailCause(r.e), r.e)

\* The width of an int8 destination.
Int8Bits == 8

\* reflect.Value.SetInt on a destination of w bits: the two's complement
\* number held by the low w bits of i.
SetInt(i, w) == ((i + 2^(w - 1)) % 2^w) - 2^(w - 1)

\* A parse whose default case converts to a string instead of failing.
ByteParseDefaultString(b, dst) ==
    CASE dst = "int" -> IF b.num THEN [e |-> "nil", val |-> IntTok(b.v)]
                        ELSE [e |-> "ParseErr", val |-> NoVal]
      [] dst = "int8" -> IF b.num THEN [e |-> "nil", val |-> IntTok(SetInt(b.v, Int8Bits))]
                         ELSE [e |-> "ParseErr", val |-> NoVal]
      [] OTHER -> [e |-> "nil", val |-> b]

\* byteArgsReader.parse and the parseXxx it dispatches to, on the bytes b.
ByteParse(b, dst) ==
    CASE dst = "int" -> IF b.num THEN [e |-> "nil", val |-> IntTok(b.v)]
                        ELSE [e |-> "ParseErr", val |-> NoVal]
      [] dst = "int8" -> IF b.num THEN [e |-> "nil", val |-> IntTok(SetInt(b.v, Int8Bits))]
                         ELSE [e |-> "ParseErr", val |-> NoVal]
      [] dst = "string" -> [e |-> "nil", val |-> b]
      [] OTHER -> [e |-> "UnsupErr", val |-> NoVal]

\* A conversion failure that records the error and still returns true.
ByteArgsParsedOkOnError(r, dst) ==
    IF dst = "nil" THEN NextRes(r.s, TRUE, NoVal, "none", "nil")
    ELSE LET p == ByteParse(r.val, dst)
         IN IF p.e # "nil"
            THEN NextRes([r.s EXCEPT !.err = p.e], TRUE, NoVal, "none", "nil")
            ELSE NextRes(r.s, TRUE, p.val, "none", "nil")

\* A conversion failure that returns false and records no error.
ByteArgsParsedErrDropped(r, dst) ==
    IF dst = "nil" THEN NextRes(r.s, TRUE, NoVal, "none", "nil")
    ELSE LET p == ByteParse(r.val, dst)
         IN IF p.e # "nil"
            THEN NextRes(r.s, FALSE, NoVal, "convert", p.e)
            ELSE NextRes(r.s, TRUE, p.val, "none", "nil")

\* A Next that converts the bytes even when the destination is nil.
ByteArgsParsedNilConverted(r, dst) ==
    LET p == ByteParse(r.val, dst)
    IN IF p.e # "nil"
       THEN NextRes([r.s EXCEPT !.err = p.e], FALSE, NoVal, "convert", p.e)
       ELSE NextRes(r.s, TRUE, p.val, "none", "nil")

\* byteArgsReader.Next, once the embedded Next has filled the buffer.
ByteArgsParsed(r, dst) ==
    IF dst = "nil" THEN NextRes(r.s, TRUE, NoVal, "none", "nil")
    ELSE LET p == ByteParse(r.val, dst)
         IN IF p.e # "nil"
            THEN NextRes([r.s EXCEPT !.err = p.e], FALSE, NoVal, "convert", p.e)
            ELSE NextRes(r.s, TRUE, p.val, "none", "nil")

\* byteArgsReader.Next
ByteArgsReaderNext(inp, s, dst) ==
    LET r == ArgsReaderNext(inp, s, "bytes")
    IN IF r.ok THEN ByteArgsParsed(r, dst) ELSE r

\* Next and Len of the stream, by its implementation.
StreamNext(inp, k, s, dst) ==
    CASE k = "argsError" -> NextRes(s, FALSE, NoVal, "sticky", s.err)
      [] k = "argsReader" -> ArgsReaderNext(inp, s, dst)
      [] OTHER -> ByteArgsReaderNext(inp, s, dst)

StreamLen(inp, k, s) == IF k = "argsError" THEN [s |-> s, n |-> 0] ELSE ArgsReaderLen(inp, s)

\* A Close that discards nothing.
DrainNothing(inp, d) == [d |-> d, e |-> "End", val |-> NoVal]

\* argsReader.Close, inside once.Do: one turn of the discarding loop.
DrainStep(inp, d) == Decode(inp, d, "nil")

\* A Close without the discarding loop.
DrainSkipped(inp, d) == d

RECURSIVE Drain(_, _)
Drain(inp, d) == LET r == DrainStep(inp, d) IN IF r.e = "nil" THEN Drain(inp, r.d) ELSE r.d

\* A Close that keeps the error that ended the discarding loop.
CloseErrRaw(d) == d.err

\* argsReader.Close, inside once.Do: err := args.dec.Err()
CloseErr(d) == StreamErr(d)

\* A Close that overwrites args.err with the decoder's error.
CloseOverwriteErr(s, err) == [s EXCEPT !.err = err]

\* argsReader.Close, inside once.Do: the error kept in args.err.
CloseSetErr(s, err) == IF s.err = "nil" THEN [s EXCEPT !.err = err] ELSE s

\* argsReader.Close, inside once.Do: what goes to the completion channel.
CloseSend(ch, withDone, err) == IF withDone THEN Append(ch, err) ELSE ch

\* A Close whose body is not guarded.
OnceAlwaysRuns(isDone) == TRUE

\* sync.Once.Do as Close uses it: whether the body is still to run.
OnceMustRun(isDone) == ~isDone

\* A Close that returns the error of the body it ran, not the cached one.
CloseResultLocal(s, ran) == IF ran THEN s.err ELSE "nil"

\* What Close returns: args.err, whoever ran the body.
CloseResult(s, ran) == s.err

\* ParseArgs, the loop over the destinations: the outcome of the last Next
\* made (none for no destination) and the number that returned true.
RECURSIVE ParseLoop(_, _, _, _, _)
ParseLoop(inp, k, s, dsts, n) ==
    IF dsts = <<>> THEN [r |-> NextRes(s, TRUE, NoVal, "none", "nil"), n |-> n]
    ELSE LET r == StreamNext(inp, k, s, Head(dsts))
         IN IF ~r.ok THEN [r |-> r, n |-> n]
            ELSE IF Len(dsts) = 1 THEN [r |-> r, n |-> n + 1]
            ELSE ParseLoop(inp, k, r.s, Tail(dsts), n + 1)

----------------------------------------------------------------------------
(* One stream and its callers *)

\* Destination lists handed to ParseArgs.
MaxDsts == 2

Dsts == {"nil", "int", "int8", "string", "unsup"}

\* An argsReader hands the destination to the decoder; the destinations
\* parse dispatches on are those of a byteArgsReader.
DstsOf(k) == IF k = "argsReader" THEN Dsts \ {"int8", "unsup"} ELSE Dsts

\* A frame: an array of announced length, or a single value.
Frames == {<<ArrTok(Len(w))>> \o w : w \in SeqsUpTo(Values, MaxLen)}
              \cup {<<v>> : v \in Values}

NoNext == [called |-> FALSE, ok |-> FALSE, val |-> NoVal, cause |-> "none", e |-> "nil"]
NoFail == [cause |-> "none", e |-> "nil"]
NoParse == [called |-> FALSE, ret |-> "nil", cause |-> "none", n |-> 0, ndst |-> 0]

Seen(r) == [called |-> TRUE, ok |-> r.ok, val |-> r.val, cause |-> r.cause, e |-> r.e]

Idle == \A t \in Threads : pc[t] = "idle"

\* The dispatch loop of a server connection before its first request: the
\* parser position, the request's arguments, whether they were closed and
\* by whom,
\* the handler's loop variables and the reply held in the write buffer.
NewSrv == [phase |-> "idle", pos |-> 1, args |-> NewStream("nil"), once |-> FALSE,
           closedBy |-> "none", left |-> 0, cur |-> 0, out |-> <<>>]

\* No Accept made yet, no error, no Shutdown call yet.
NoError == [id |-> 0, temporary |-> FALSE]
NoAccept == [kind |-> "none", err |-> NoError]
NoShutdown == [pc |-> "none", ctx |-> "none", atCall |-> "none", ret |-> "none", busy |-> 0]

\* The server is not part of this specification.
ServerUnused ==
    /\ serve = [pc |-> "returned", ret |-> NoError]
    /\ lastAccept = NoAccept
    /\ nAccepts = 0
    /\ listening = FALSE
    /\ conns = <<>>
    /\ shut = NoShutdown

\* The pool is not part of this specification.
PoolUnused ==
    /\ limit = 0
    /\ idle = 0
    /\ inuse = 0
    /\ req = <<>>

\* The connection is not part of this specification.
ConnUnused ==
    /\ c2s = <<>>
    /\ s2c = <<>>
    /\ srv = NewSrv
    /\ cpc = <<>>
    /\ pending = <<>>
    /\ rd = [busy |-> FALSE, pos |-> 1]
    /\ it = NewStream("nil")
    /\ written = <<>>
    /\ delivered = <<>>
    /\ frameStart = <<>>
    /\ obs = <<>>

Init ==
    /\ kind \in {"argsError", "argsReader", "byteArgsReader"}
    /\ IF kind = "argsError"
       THEN /\ hasDone = FALSE
            /\ tokens = <<>>
            /\ st \in {NewStream(e) : e \in {"E1", "DecErr"}}
       ELSE /\ hasDone \in BOOLEAN
            /\ tokens \in Frames
            /\ st = NewStream("nil")
    /\ onceDone = FALSE
    /\ onceMu = "free"
    /\ pc = [t \in Threads |-> "idle"]
    /\ ranBody = [t \in Threads |-> FALSE]
    /\ sent = <<>>
    /\ closeRets = <<>>
    /\ nCloses = 0
    /\ lastNext = NoNext
    /\ firstFail = NoFail
    /\ parse = NoParse
    /\ ConnUnused
    /\ ServerUnused
    /\ PoolUnused

\* args.Next(dst)
NextCall(dst) ==
    /\ Idle
    /\ LET r == StreamNext(tokens, kind, st, dst)
       IN /\ st' = r.s
          /\ lastNext' = Seen(r)
          /\ firstFail' = IF ~r.ok /\ firstFail.cause = "none"
                          THEN [cause |-> r.cause, e |-> r.e] ELSE firstFail
    /\ parse' = NoParse
    /\ UNCHANGED <<kind, hasDone, tokens, onceDone, onceMu, pc, ranBody, sent,
                   closeRets, nCloses>>
    /\ UNCHANGED <<connVars, serverVars, poolVars>>

\* args.Len()
LenCall ==
    /\ Idle
    /\ st' = StreamLen(tokens, kind, st).s
    /\ lastNext' = NoNext
    /\ parse' = NoParse
    /\ UNCHANGED <<kind, hasDone, tokens, onceDone, onceMu, pc, ranBody, sent,
                   closeRets, nCloses, firstFail>>
    /\ UNCHANGED <<connVars, serverVars, poolVars>>

\* args.Close() is entered: argsError returns at once, argsReader goes
\* through once.Do, whose fast path reads the done flag.
CloseCall(t) ==
    /\ pc[t] = "idle"
    /\ nCloses < MaxCloses
    /\ nCloses' = nCloses + 1
    /\ pc' = [pc EXCEPT ![t] = IF kind # "argsError" /\ OnceMustRun(onceDone)
                               THEN "lock" ELSE "ret"]
    /\ lastNext' = NoNext
    /\ parse' = NoParse
    /\ UNCHANGED <<kind, hasDone, tokens, st, onceDone, onceMu, ranBody, sent,
                   closeRets, firstFail>>
    /\ UNCHANGED <<connVars, serverVars, poolVars>>

\* once.Do, slow path: the mutex is taken and the flag read again.
CloseLock(t) ==
    /\ pc[t] = "lock"
    /\ onceMu = "free"
    /\ IF OnceMustRun(onceDone)
       THEN /\ onceMu' = t
            /\ pc' = [pc EXCEPT ![t] = "drain"]
            /\ ranBody' = [ranBody EXCEPT ![t] = TRUE]
       ELSE /\ pc' = [pc EXCEPT ![t] = "ret"]
            /\ UNCHANGED <<onceMu, ranBody>>
    /\ UNCHANGED <<kind, hasDone, tokens, st, onceDone, sent, closeRets, nCloses,
                   lastNext, firstFail, parse>>
    /\ UNCHANGED <<connVars, serverVars, poolVars>>

\* The once body: one turn of the loop discarding the remaining values.
CloseDrain(t) ==
    /\ pc[t] = "drain"
    /\ LET r == DrainStep(tokens, st.dec)
       IN /\ st' = [st EXCEPT !.dec = r.d]
          /\ pc' = [pc EXCEPT ![t] = IF r.e = "nil" THEN "drain" ELSE "finish"]
    /\ UNCHANGED <<kind, hasDone, tokens, onceDone, onceMu, ranBody, sent,
                   closeRets, nCloses, lastNext, firstFail, parse>>
    /\ UNCHANGED <<connVars, serverVars, poolVars>>

\* The once body after the loop: the decoder's error goes to the completion
\* channel and to args.err; once.Do then sets the flag and unlocks.
CloseFinish(t) ==
    /\ pc[t] = "finish"
    /\ LET err == CloseErr(st.dec)
       IN /\ sent' = CloseSend(sent, hasDone, err)
          /\ st' = CloseSetErr(st, err)
    /\ onceDone' = TRUE
    /\ onceMu' = "free"
    /\ pc' = [pc EXCEPT ![t] = "ret"]
    /\ UNCHANGED <<kind, hasDone, tokens, ranBody, closeRets, nCloses, lastNext,
                   firstFail, parse>>
    /\ UNCHANGED <<connVars, serverVars, poolVars>>

\* Close returns.
CloseReturn(t) ==
    /\ pc[t] = "ret"
    /\ closeRets' = Append(closeRets, CloseResult(st, ranBody[t]))
    /\ pc' = [pc EXCEPT ![t] = "idle"]
    /\ ranBody' = [ranBody EXCEPT ![t] = FALSE]
    /\ UNCHANGED <<kind, hasDone, tokens, st, onceDone, onceMu, sent, nCloses,
                   lastNext, firstFail, parse>>
    /\ UNCHANGED <<connVars, serverVars, poolVars>>

\* ParseArgs(args, dsts...), which Int, Int64 and String call with one
\* destination: Next for each destination until one returns false, then
\* Close.
ParseArgsCall(dsts) ==
    /\ Idle
    /\ nCloses < MaxCloses
    /\ \E l \in {ParseLoop(tokens, kind, st, dsts, 0)} :
       \E run \in {kind # "argsError" /\ OnceMustRun(onceDone)} :
       \E d \in {IF run THEN Drain(tokens, l.r.s.dec) ELSE l.r.s.dec} :
       \E err \in {CloseErr(d)} :
       \E s2 \in {IF run THEN CloseSetErr([l.r.s EXCEPT !.dec = d], err) ELSE l.r.s} :
          /\ st' = s2
          /\ sent' = IF run THEN CloseSend(sent, hasDone, err) ELSE sent
          /\ onceDone' = (onceDone \/ run)
          /\ closeRets' = Append(closeRets, CloseResult(s2, run))
          /\ lastNext' = IF dsts = <<>> THEN NoNext ELSE Seen(l.r)
          /\ firstFail' = IF ~l.r.ok /\ firstFail.cause = "none"
                          THEN [cause |-> l.r.cause, e |-> l.r.e] ELSE firstFail
          /\ parse' = [called |-> TRUE, ret |-> CloseResult(s2, run),
                       cause |-> l.r.cause, n |-> l.n, ndst |-> Len(dsts)]
    /\ nCloses' = nCloses + 1
    /\ UNCHANGED <<kind, hasDone, tokens, onceMu, pc, ranBody>>
    /\ UNCHANGED <<connVars, serverVars, poolVars>>

Next ==
    \/ \E dst \in DstsOf(kind) : NextCall(dst)
    \/ LenCall
    \/ \E t \in Threads : CloseCall(t)
    \/ \E t \in Threads : CloseLock(t)
    \/ \E t \in Threads : CloseDrain(t)
    \/ \E t \in Threads : CloseFinish(t)
    \/ \E t \in Threads : CloseReturn(t)
    \/ \E dsts \in SeqsUpTo(DstsOf(kind), MaxDsts) : ParseArgsCall(dsts)

Spec == Init /\ [][Next]_vars

----------------------------------------------------------------------------
(* One pipelined connection: clients of a transport, the connection's       *)
(* reader loop, and the server's dispatch loop running the test's handler.  *)

\* Callers of Query("LRANGE", key, lo, hi) sharing the connection.
NCallers == 2

Callers == 1..NCallers
Pinger == 0
Clients == Callers \cup {Pinger}

\* Each caller asks for a count of its own (the ping's reply holds none),
\* starting after Lo(c); the ranges of two callers are apart.
Want(c) == c
Lo(c) == c * (NCallers + 1)

\* Arguments after the three LRANGE takes: the handler does not read them.
Extra(c) == c - 1

\* The request frame: an array of bulk strings, the command name first.
ReqFrame(c) ==
    IF c = Pinger THEN <<ArrTok(1), TextTok>>
    ELSE <<ArrTok(4 + Extra(c)), TextTok, TextTok,
           NumStrTok(Lo(c)), NumStrTok(Lo(c) + Want(c))>> \o [k \in 1..Extra(c) |-> TextTok]

\* A new stream on a parser that stands at position p.
StreamAt(p) == [NewStream("nil") EXCEPT !.dec.pos = p]

\* The decoder's next read would wait for input that has not arrived.
Starved(inp, d) ==
    d.err = "nil" /\ d.pos > Len(inp) /\ (d.typ = "Unknown" \/ d.cnt < d.max)

\* Decode, Next and Len return without waiting.
CanDecode(inp, d) == ~Starved(inp, d) /\ ~Starved(inp, DecLen(inp, d).d)
CanNext(inp, s) == s.err # "nil" \/ CanDecode(inp, s.dec)
CanLen(inp, s) == s.err # "nil" \/ s.dec.typ # "Unknown" \/ ~Starved(inp, s.dec)

\* The integer a handler variable holds after Next(&v): zero when Next failed.
IntOf(r) == IF r.ok THEN r.val.v ELSE 0

NoObs == [len |-> -1, got |-> <<>>, falseAt |-> -1, ret |-> "none"]

\* The single stream is not part of this specification.
StreamUnused ==
    /\ kind = "argsReader"
    /\ hasDone = TRUE
    /\ tokens = <<>>
    /\ st = NewStream("nil")
    /\ onceDone = FALSE
    /\ onceMu = "free"
    /\ pc = [t \in Threads |-> "idle"]
    /\ ranBody = [t \in Threads |-> FALSE]
    /\ sent = <<>>
    /\ closeRets = <<>>
    /\ nCloses = 0
    /\ lastNext = NoNext
    /\ firstFail = NoFail
    /\ parse = NoParse

ConnInit ==
    /\ StreamUnused
    /\ ServerUnused
    /\ PoolUnused
    /\ c2s = <<>>
    /\ s2c = <<>>
    /\ srv = NewSrv
    /\ cpc = [c \in Clients |-> "new"]
    /\ pending = <<>>
    /\ rd = [busy |-> FALSE, pos |-> 1]
    /\ it = NewStream("nil")
    /\ written = <<>>
    /\ delivered = <<>>
    /\ frameStart = <<>>
    /\ obs = [c \in Clients |-> NoObs]

\* A client (a caller's Query, or the transport's keepalive ping) takes the
\* write turn: its frame is written and its pending call queued in one step.
SendRequest(c) ==
    /\ cpc[c] = "new"
    /\ c2s' = c2s \o ReqFrame(c)
    /\ pending' = Append(pending, c)
    /\ written' = Append(written, c)
    /\ cpc' = [cpc EXCEPT ![c] = "waiting"]
    /\ UNCHANGED <<s2c, srv, rd, it, delivered, frameStart, obs>>
    /\ UNCHANGED <<streamVars, serverVars, poolVars>>

\* The dispatch loop reads the command name of the next request and calls
\* the handler, which skips the key, reads i and j, closes the arguments
\* (as the handlers of the first tests do) or leaves them open (as the
\* last one does), and announces j - i elements.
SrvDispatch ==
    /\ srv.phase = "idle"
    /\ srv.pos <= Len(c2s)
    /\ \E cmd \in {ByteArgsReaderNext(c2s, StreamAt(srv.pos), "string")} :
       \E key \in {ByteArgsReaderNext(c2s, cmd.s, "nil")} :
       \E i \in {ByteArgsReaderNext(c2s, key.s, "int")} :
       \E j \in {ByteArgsReaderNext(c2s, i.s, "int")} :
       \E closes \in BOOLEAN :
       \E d \in {IF closes THEN Drain(c2s, j.s.dec) ELSE j.s.dec} :
          srv' = [srv EXCEPT !.phase = "handling",
                             !.args = IF closes
                                      THEN CloseSetErr([j.s EXCEPT !.dec = d], CloseErr(d))
                                      ELSE j.s,
                             !.once = closes,
                             !.closedBy = IF closes THEN "handler" ELSE "none",
                             !.left = IntOf(j) - IntOf(i), !.cur = IntOf(i),
                             !.out = <<ArrTok(IntOf(j) - IntOf(i))>>]
    /\ frameStart' = Append(frameStart, Len(s2c) + 1)
    /\ UNCHANGED <<c2s, s2c, cpc, pending, rd, it, written, delivered, obs>>
    /\ UNCHANGED <<streamVars, serverVars, poolVars>>

\* The handler's loop: i++; res.Write(i)
SrvWrite ==
    /\ srv.phase = "handling"
    /\ srv.left > 0
    /\ srv' = [srv EXCEPT !.left = @ - 1, !.cur = @ + 1,
                          !.out = Append(@, IntTok(srv.cur + 1))]
    /\ UNCHANGED <<c2s, s2c, cpc, pending, rd, it, written, delivered, frameStart, obs>>
    /\ UNCHANGED <<streamVars, serverVars, poolVars>>

\* The handler has returned: the dispatch loop closes the request's
\* arguments, which leaves the parser at the next request.
SrvReturn ==
    /\ srv.phase = "handling"
    /\ srv.left = 0
    /\ \E d \in {IF OnceMustRun(srv.once) THEN Drain(c2s, srv.args.dec) ELSE srv.args.dec} :
          srv' = [srv EXCEPT !.phase = "reply", !.pos = d.pos, !.once = TRUE,
                             !.closedBy = IF OnceMustRun(srv.once) THEN "framework" ELSE @,
                             !.args = IF OnceMustRun(srv.once)
                                      THEN CloseSetErr([srv.args EXCEPT !.dec = d], CloseErr(d))
                                      ELSE srv.args]
    /\ UNCHANGED <<c2s, s2c, cpc, pending, rd, it, written, delivered, frameStart, obs>>
    /\ UNCHANGED <<streamVars, serverVars, poolVars>>

\* The reply the handler wrote goes out, and the loop waits for the next
\* request.
SrvReply ==
    /\ srv.phase = "reply"
    /\ s2c' = s2c \o srv.out
    /\ srv' = [srv EXCEPT !.phase = "idle", !.out = <<>>]
    /\ UNCHANGED <<c2s, cpc, pending, rd, it, written, delivered, frameStart, obs>>
    /\ UNCHANGED <<streamVars, serverVars, poolVars>>

\* The reader loop: a reply has started to arrive, the oldest pending call
\* gets a stream on it, and the loop waits for that stream to be closed.
Deliver ==
    /\ ~rd.busy
    /\ pending # <<>>
    /\ rd.pos <= Len(s2c)
    /\ rd' = [rd EXCEPT !.busy = TRUE]
    /\ it' = StreamAt(rd.pos)
    /\ cpc' = [cpc EXCEPT ![Head(pending)] = "reading"]
    /\ pending' = Tail(pending)
    /\ delivered' = Append(delivered, [c |-> Head(pending), at |-> rd.pos])
    /\ UNCHANGED <<c2s, s2c, srv, written, frameStart, obs>>
    /\ UNCHANGED <<streamVars, serverVars, poolVars>>

\* it.Len(), before the first read
CallLen(c) ==
    /\ cpc[c] = "reading"
    /\ obs[c] = NoObs
    /\ CanLen(s2c, it)
    /\ \E r \in {ArgsReaderLen(s2c, it)} :
          /\ it' = r.s
          /\ obs' = [obs EXCEPT ![c].len = r.n]
    /\ UNCHANGED <<c2s, s2c, srv, cpc, pending, rd, written, delivered, frameStart>>
    /\ UNCHANGED <<streamVars, serverVars, poolVars>>

\* it.Next(&v) of a caller, it.Next(nil) of the ping
CallNext(c) ==
    /\ cpc[c] = "reading"
    /\ obs[c].falseAt = -1
    /\ CanNext(s2c, it)
    /\ \E r \in {ArgsReaderNext(s2c, it, IF c = Pinger THEN "nil" ELSE "int")} :
          /\ it' = r.s
          /\ obs' = IF r.ok THEN [obs EXCEPT ![c].got = Append(@, r.val)]
                    ELSE [obs EXCEPT ![c].falseAt = Len(obs[c].got)]
    /\ UNCHANGED <<c2s, s2c, srv, cpc, pending, rd, written, delivered, frameStart>>
    /\ UNCHANGED <<streamVars, serverVars, poolVars>>

\* it.Close(): one turn of the discarding loop; the turn that ends the loop
\* signals the reader loop, which resumes where the stream stopped.
CallClose(c) ==
    /\ cpc[c] \in {"reading", "closing"}
    /\ CanDecode(s2c, it.dec)
    /\ \E r \in {DrainStep(s2c, it.dec)} :
          IF r.e = "nil"
          THEN /\ it' = [it EXCEPT !.dec = r.d]
               /\ cpc' = [cpc EXCEPT ![c] = "closing"]
               /\ UNCHANGED <<rd, obs>>
          ELSE \E s2 \in {CloseSetErr([it EXCEPT !.dec = r.d], CloseErr(r.d))} :
               /\ it' = s2
               /\ cpc' = [cpc EXCEPT ![c] = "closed"]
               /\ rd' = [busy |-> FALSE, pos |-> r.d.pos]
               /\ obs' = [obs EXCEPT ![c].ret = CloseResult(s2, TRUE)]
    /\ UNCHANGED <<c2s, s2c, srv, pending, written, delivered, frameStart>>
    /\ UNCHANGED <<streamVars, serverVars, poolVars>>

ConnNext ==
    \/ \E c \in Clients : SendRequest(c)
    \/ SrvDispatch
    \/ SrvWrite
    \/ SrvReturn
    \/ SrvReply
    \/ Deliver
    \/ \E c \in Clients : CallLen(c)
    \/ \E c \in Clients : CallNext(c)
    \/ \E c \in Clients : CallClose(c)

SpecConn == ConnInit /\ [][ConnNext]_vars


----------------------------------------------------------------------------
(* A server: Serve on a listener, the connections it accepted, Shutdown.    *)

\* Accept calls the Serve loop makes.
MaxAccepts == 3

\* The errors a listener returns: testError values, told apart by identity.
AcceptErrors == {[id |-> i, temporary |-> b] : i \in 1..2, b \in BOOLEAN}

\* testError.Temporary
Temporary(e) == e.temporary

\* Accept on a listener that was closed fails for good.
ClosedError == [id |-> 3, temporary |-> FALSE]

\* What Accept returns: a connection or an error.
Accepted == [kind |-> "conn", err |-> NoError]
Failed(e) == [kind |-> "err", err |-> e]
AcceptResults(open) ==
    IF open THEN {Accepted} \cup {Failed(e) : e \in AcceptErrors} ELSE {Failed(ClosedError)}

\* A Serve loop that gives up on every error.
ServeStopsOnAnyError(a) ==
    IF a.kind = "err" THEN [pc |-> "returned", ret |-> a.err]
    ELSE [pc |-> "accept", ret |-> NoError]

\* The Serve loop after Accept returned a: a temporary error is logged and
\* the loop goes on, any other error is returned.
ServeAfterAccept(a) ==
    IF a.kind = "err" /\ ~Temporary(a.err) THEN [pc |-> "returned", ret |-> a.err]
    ELSE [pc |-> "accept", ret |-> NoError]

\* Dispatch loops busy with a request.
Busy == Cardinality({k \in DOMAIN conns : conns[k] = "busy"})

\* A Shutdown that looks for busy connections before it looks at the context.
ShutdownIdleFirst(ctx, busy) ==
    IF busy = 0 THEN "nil" ELSE IF ctx = "canceled" THEN "Canceled" ELSE "wait"

\* What Shutdown does with context ctx while busy loops are running: the
\* context's error once it is canceled, nil once no loop is busy.
ShutdownPoll(ctx, busy) ==
    IF ctx = "canceled" THEN "Canceled" ELSE IF busy = 0 THEN "nil" ELSE "wait"

ServerInit ==
    /\ StreamUnused
    /\ ConnUnused
    /\ PoolUnused
    /\ serve = [pc |-> "accept", ret |-> NoError]
    /\ lastAccept = NoAccept
    /\ nAccepts = 0
    /\ listening = TRUE
    /\ conns = <<>>
    /\ shut = NoShutdown

\* One turn of the Serve loop: l.Accept() and what follows it.
Accept(a) ==
    /\ serve.pc = "accept"
    /\ nAccepts < MaxAccepts
    /\ nAccepts' = nAccepts + 1
    /\ lastAccept' = a
    /\ serve' = ServeAfterAccept(a)
    /\ conns' = IF a.kind = "conn" THEN Append(conns, "idle") ELSE conns
    /\ UNCHANGED <<listening, shut>>
    /\ UNCHANGED <<streamVars, connVars, poolVars>>

\* A request arrives on connection k: its dispatch loop leaves Idle.
ConnRequest(k) ==
    /\ conns[k] = "idle"
    /\ conns' = [conns EXCEPT ![k] = "busy"]
    /\ UNCHANGED <<serve, lastAccept, nAccepts, listening, shut>>
    /\ UNCHANGED <<streamVars, connVars, poolVars>>

\* The reply is written: the dispatch loop is back in Idle.
ConnReplied(k) ==
    /\ conns[k] = "busy"
    /\ conns' = [conns EXCEPT ![k] = "idle"]
    /\ UNCHANGED <<serve, lastAccept, nAccepts, listening, shut>>
    /\ UNCHANGED <<streamVars, connVars, poolVars>>

\* The client disconnects or the idle timeout passes.
ConnClosed(k) ==
    /\ conns[k] = "idle"
    /\ conns' = [conns EXCEPT ![k] = "closed"]
    /\ UNCHANGED <<serve, lastAccept, nAccepts, listening, shut>>
    /\ UNCHANGED <<streamVars, connVars, poolVars>>

\* srv.Shutdown(ctx): the listener is closed, then the call returns or waits.
ShutdownCall(ctx) ==
    /\ shut.pc = "none"
    /\ listening' = FALSE
    /\ \E r \in {ShutdownPoll(ctx, Busy)} :
          shut' = [pc |-> IF r = "wait" THEN "waiting" ELSE "returned",
                   ctx |-> ctx, atCall |-> ctx,
                   ret |-> IF r = "wait" THEN "none" ELSE r,
                   busy |-> Busy]
    /\ UNCHANGED <<serve, lastAccept, nAccepts, conns>>
    /\ UNCHANGED <<streamVars, connVars, poolVars>>

\* cancel() while Shutdown waits
CtxCancel ==
    /\ shut.pc = "waiting"
    /\ shut.ctx = "live"
    /\ shut' = [shut EXCEPT !.ctx = "canceled"]
    /\ UNCHANGED <<serve, lastAccept, nAccepts, listening, conns>>
    /\ UNCHANGED <<streamVars, connVars, poolVars>>

\* The waiting Shutdown returns.
ShutdownReturn ==
    /\ shut.pc = "waiting"
    /\ ShutdownPoll(shut.ctx, Busy) # "wait"
    /\ shut' = [shut EXCEPT !.pc = "returned", !.ret = ShutdownPoll(shut.ctx, Busy),
                            !.busy = Busy]
    /\ UNCHANGED <<serve, lastAccept, nAccepts, listening, conns>>
    /\ UNCHANGED <<streamVars, connVars, poolVars>>

ServerNext ==
    \/ \E a \in AcceptResults(listening) : Accept(a)
    \/ \E k \in DOMAIN conns : ConnRequest(k)
    \/ \E k \in DOMAIN conns : ConnReplied(k)
    \/ \E k \in DOMAIN conns : ConnClosed(k)
    \/ \E ctx \in {"live", "canceled"} : ShutdownCall(ctx)
    \/ CtxCancel
    \/ ShutdownReturn

SpecServer == ServerInit /\ [][ServerNext]_vars

----------------------------------------------------------------------------
(* A transport's pool of connections to one address.                        *)

\* Largest ConnsPerHost, and the requests made at once.
MaxConnsPerHost == 2
NRequests == 3

Requests == 1..NRequests

\* A transport that opens a connection whenever none is idle.
SelectUnbounded(nIdle, nOpen, max) ==
    IF nIdle > 0 THEN "reuse" ELSE "open"

\* Transport selection: an idle connection, else a new one below the limit,
\* else wait.
Select(nIdle, nOpen, max) ==
    IF nIdle > 0 THEN "reuse" ELSE IF nOpen < max THEN "open" ELSE "block"

PoolInit ==
    /\ StreamUnused
    /\ ConnUnused
    /\ ServerUnused
    /\ limit \in 1..MaxConnsPerHost
    /\ idle = 0
    /\ inuse = 0
    /\ req = [r \in Requests |-> "new"]

\* A request asks the pool for a connection; one that waited asks again
\* when a connection may be had.
Acquire(r) ==
    /\ \/ req[r] = "new"
       \/ req[r] = "blocked" /\ Select(idle, idle + inuse, limit) # "block"
    /\ \E how \in {Select(idle, idle + inuse, limit)} :
          /\ req' = [req EXCEPT ![r] = IF how = "block" THEN "blocked" ELSE "using"]
          /\ idle' = IF how = "reuse" THEN idle - 1 ELSE idle
          /\ inuse' = IF how \in {"reuse", "open"} THEN inuse + 1 ELSE inuse
    /\ UNCHANGED limit
    /\ UNCHANGED <<streamVars, connVars, serverVars>>

\* The request is over: its connection goes back to the pool.
Release(r) ==
    /\ req[r] = "using"
    /\ req' = [req EXCEPT ![r] = "done"]
    /\ inuse' = inuse - 1
    /\ idle' = idle + 1
    /\ UNCHANGED limit
    /\ UNCHANGED <<streamVars, connVars, serverVars>>

\* CloseIdleConnections, or a ping that is not answered in time.
CloseIdleConnections ==
    /\ idle > 0
    /\ idle' = 0
    /\ UNCHANGED <<limit, inuse, req>>
    /\ UNCHANGED <<streamVars, connVars, serverVars>>

PoolNext ==
    \/ \E r \in Requests : Acquire(r)
    \/ \E r \in Requests : Release(r)
    \/ CloseIdleConnections

SpecPool == PoolInit /\ [][PoolNext]_vars

\* A request that holds a connection ends, and one that may take a
\* connection takes it.
FairSpecPool ==
    /\ SpecPool
    /\ \A r \in Requests : WF_vars(Acquire(r)) /\ WF_vars(Release(r))


----------------------------------------------------------------------------
(* Properties of one stream *)

\* What Len() and Next(dst) would return in the current state.
LenNow == StreamLen(tokens, kind, st).n
NextOkNow(dst) == StreamNext(tokens, kind, st, dst).ok
NeverNextNow == \A dst \in DstsOf(kind) : ~NextOkNow(dst)

\* The count the frame announces: its array header, or one for a lone value.
Announced ==
    IF tokens = <<>> THEN 0 ELSE IF tokens[1].t = "arr" THEN tokens[1].v ELSE 1

\* The step is a call of Next on its own (not one made by ParseArgs).
NextStep == lastNext'.called /\ ~parse'.called

\* C1: Close is idempotent: every Close returns the error the first Close
\* returned, and once a Close has returned the decoder is not advanced
\* again, whatever Next and Len calls come before and between.
C1_CloseIdempotent ==
    [][/\ \A i \in DOMAIN closeRets' : closeRets'[i] = closeRets'[1]
       /\ (closeRets # <<>> => st'.dec = st.dec)]_vars

C1_Witness ==
    /\ kind = "argsReader"
    /\ Len(closeRets) = 2
    /\ closeRets[1] \in {"E1", "E2"}
    /\ st.dec.cnt = 2

\* C2: a stream built with a completion channel sends exactly one value on
\* it over its life, also when two callers are inside Close at once; a
\* stream on which Close was never called sends none.
C2_OneCompletionSignal ==
    hasDone => /\ Len(sent) <= 1
               /\ (closeRets # <<>> => Len(sent) = 1)
               /\ (nCloses = 0 => sent = <<>>)

C2_Witness ==
    /\ hasDone
    /\ Len(sent) = 1
    /\ pc["framework"] = "ret"
    /\ pc["handler"] = "lock"

\* C3: after a Close has returned, Len() is 0 and Next returns false for
\* every destination, for argsReader, byteArgsReader and argsError alike.
C3_ClosedIsEmpty ==
    closeRets # <<>> => LenNow = 0 /\ NeverNextNow

C3_Witness ==
    /\ kind = "byteArgsReader"
    /\ closeRets = <<"nil">>
    /\ Announced = 2
    /\ lastNext.called /\ ~lastNext.ok /\ ~parse.called

\* C4: once a Next has returned false, every later Next returns false and
\* Len() is 0; when it failed on a decode or conversion error, every Close
\* returns that error.
C4_NextFailureSticky ==
    firstFail.cause # "none" =>
        /\ LenNow = 0
        /\ NeverNextNow
        /\ (firstFail.cause \in {"decode", "convert"} =>
                \A i \in DOMAIN closeRets : closeRets[i] = firstFail.e)

C4_Witness ==
    /\ kind = "argsReader"
    /\ firstFail.cause = "decode"
    /\ firstFail.e = "ConvErr"
    /\ st.dec.cnt = 1
    /\ Announced = 2
    /\ Len(closeRets) = 2

\* C5: a RESP error value met by Next becomes the stream's error: that Next
\* returns false and stores nothing, later Next calls return false, and
\* every Close returns that error.
C5_RespErrorSticky ==
    /\ (lastNext.cause = "resp" => ~lastNext.ok /\ lastNext.val = NoVal)
    /\ (firstFail.cause = "resp" =>
            /\ st.err = firstFail.e
            /\ NeverNextNow
            /\ \A i \in DOMAIN closeRets : closeRets[i] = firstFail.e)

C5_Witness ==
    /\ firstFail.cause = "resp"
    /\ firstFail.e = "E2"
    /\ tokens = <<ArrTok(2), ErrTok(2), ErrTok(1)>>
    /\ Len(closeRets) = 2

\* C6: Len() stays between 0 and the announced count, no step raises it,
\* and a Next that returns true lowers it by exactly one.
C6_LenBounded ==
    [][/\ 0 <= LenNow /\ LenNow <= Announced
       /\ 0 <= LenNow' /\ LenNow' <= LenNow
       /\ (NextStep /\ lastNext'.ok => LenNow' = LenNow - 1)]_vars

C6_Witness ==
    /\ lastNext.called /\ lastNext.ok /\ ~parse.called
    /\ Announced = 2
    /\ LenNow = 1

\* C7: Int, Int64 and String (ParseArgs with one destination) return an
\* error whenever their Next read no value, the empty list included.
C7_ErrorWhenNothingRead ==
    parse.called /\ parse.ndst = 1 /\ parse.n = 0 => parse.ret # "nil"

\* C8: ParseArgs leaves the list closed on every path, and returns an error
\* when a Next returned false on a decode error, a conversion error or a
\* RESP error value.
C8_ParseArgsReportsError ==
    parse.called =>
        /\ kind # "argsError" => onceDone
        /\ closeRets # <<>>
        /\ LenNow = 0
        /\ (parse.cause \in {"decode", "convert", "resp"} => parse.ret # "nil")

C8_Witness ==
    /\ parse.called
    /\ parse.ndst = 2
    /\ parse.n = 1
    /\ parse.cause = "convert"
    /\ parse.ret = "ParseErr"

\* C15: the first Close discards every value not yet read: when the decoder
\* itself reports no error, the values consumed from the frame are exactly
\* the announced count and the parser stands at the end of the frame,
\* whatever was read before and whatever error Next recorded before.
C15_CloseAlignsFrame ==
    (kind # "argsError" /\ onceDone /\ StreamErr(st.dec) = "nil")
        => /\ st.dec.cnt = Announced
           /\ st.dec.pos = Len(tokens) + 1

C15_Witness ==
    /\ tokens = <<ArrTok(2), ErrTok(1), TextTok>>
    /\ firstFail = [cause |-> "resp", e |-> "E1"]
    /\ onceDone
    /\ StreamErr(st.dec) = "nil"
    /\ st.dec.cnt = 2

SkipsOne ==
    LET l == DecLen(tokens, st.dec)
        r == StreamNext(tokens, kind, st, "nil")
    IN /\ r.ok
       /\ r.val = NoVal
       /\ r.s.err = "nil"
       /\ StreamLen(tokens, kind, r.s).n = LenNow - 1
       /\ r.s.dec.pos = l.d.pos + 1
       /\ r.s.dec.cnt = l.d.cnt + 1

\* The value the next read of the stream meets.
Upcoming == Peek(tokens, DecLen(tokens, st.dec).d)

\* C17 as stated: Next(nil) on a stream that has unread values and no error
\* skips exactly one value and returns true, whatever the value is (every
\* value of the frame being complete).
C17_NextNilSkipsAny ==
    (/\ kind # "argsError"
     /\ st.err = "nil"
     /\ LenNow > 0
     /\ \A i \in DOMAIN tokens : tokens[i].t \in {"arr", "int", "str", "err"})
        => SkipsOne

\* C17: Next(nil) on a stream that has unread values and no error skips
\* exactly one value and returns true when the value it meets is complete,
\* is not a RESP error and, on a byteArgsReader, is a string (the value is
\* first decoded into the byte buffer); no conversion to a destination is
\* attempted and the following Next reads the value after it.
C17_NextNilSkipsValue ==
    (/\ kind # "argsError"
     /\ st.err = "nil"
     /\ LenNow > 0
     /\ \/ Upcoming.t = "str"
        \/ Upcoming.t = "int" /\ kind = "argsReader")
        => SkipsOne

C17_Witness ==
    /\ kind = "byteArgsReader"
    /\ tokens = <<ArrTok(2), TextTok, TextTok>>
    /\ lastNext.called /\ lastNext.ok /\ lastNext.val = NoVal
    /\ ~parse.called
    /\ st.dec.cnt = 1
    /\ LenNow = 1

\* C18 as stated: the value the first Close sends on the completion channel
\* equals the error Close returns, in every case.
C18_SignalEqualsReturn ==
    (hasDone /\ sent # <<>>) => \A i \in DOMAIN closeRets : closeRets[i] = sent[1]

\* C18: the value the first Close sends on the completion channel is the
\* decoder's error after discarding (End counted as no error).  Close
\* returns that same value unless an earlier Next recorded a RESP error or
\* a conversion error; then Close returns the recorded error and the
\* channel still receives the decoder's.
C18_SignalIsDecoderError ==
    (hasDone /\ sent # <<>>)
        => /\ sent = <<StreamErr(st.dec)>>
           /\ \A i \in DOMAIN closeRets :
                 closeRets[i] = IF firstFail.cause \in {"resp", "convert"}
                                THEN firstFail.e ELSE sent[1]

C18_Witness ==
    /\ kind = "byteArgsReader"
    /\ hasDone
    /\ firstFail = [cause |-> "convert", e |-> "ParseErr"]
    /\ sent = <<"nil">>
    /\ closeRets = <<"ParseErr">>

\* C19: Close does not drop a RESP error value: when the frame holds a RESP
\* error value that was still unread at the first Close (every value of the
\* frame is complete and no Next failed on a value of the frame), every
\* Close returns a non-nil error.
C19_CloseKeepsRespError ==
    (/\ kind # "argsError"
     /\ closeRets # <<>>
     /\ \E i \in DOMAIN tokens : tokens[i].t = "err"
     /\ \A i \in DOMAIN tokens : tokens[i].t \in {"arr", "int", "str", "err"}
     /\ firstFail.cause \in {"none", "exhausted"})
        => \A i \in DOMAIN closeRets : closeRets[i] # "nil"

\* C20: a Next on a byteArgsReader that returns true for an integer
\* destination has stored the very number the value it consumed holds;
\* a number that does not fit the destination is never stored reduced
\* modulo 2^w.
C20_IntegerNeverTruncated ==
    (/\ kind = "byteArgsReader"
     /\ lastNext.called /\ ~parse.called
     /\ lastNext.ok /\ lastNext.val.t = "int")
        => lastNext.val.v = tokens[st.dec.pos - 1].v

----------------------------------------------------------------------------
(* Properties of the pipelined connection *)

\* The values client c asked for, in order (none for the ping).
Expected(c) == [i \in 1..Want(c) |-> IntTok(Lo(c) + i)]

IsPrefix(p, q) == Len(p) <= Len(q) /\ \A i \in 1..Len(p) : p[i] = q[i]

\* C9: when the handler announces n elements and writes them, the client's
\* iterator reports Len() = n before any read, its first n Next calls
\* return true and yield the n values in order, the next one returns false,
\* and Close returns no error.
C9_StreamedReply ==
    \A c \in Clients :
        /\ obs[c].len \in {-1, Want(c)}
        /\ IsPrefix(obs[c].got, Expected(c))
        /\ obs[c].falseAt \in {-1, Want(c)}
        /\ obs[c].ret \in {"none", "nil"}

C9_Witness ==
    /\ obs[2] = [len |-> 2, got |-> Expected(2), falseAt |-> 2, ret |-> "nil"]
    /\ obs[Pinger] = [len |-> 0, got |-> <<>>, falseAt |-> 0, ret |-> "nil"]

\* C10: replies are matched to requests in the order the requests were
\* written: the k-th stream handed out goes to the client that wrote the
\* k-th frame and starts at the k-th reply frame, so a caller reads its own
\* elements only and the ping's reply holds none of them.
C10_FifoMatching ==
    /\ \A k \in DOMAIN delivered :
          /\ delivered[k].c = written[k]
          /\ k \in DOMAIN frameStart
          /\ delivered[k].at = frameStart[k]
    /\ \A c \in Callers :
          /\ obs[c].len \in {-1, Want(c)}
          /\ IsPrefix(obs[c].got, Expected(c))
    /\ obs[Pinger].len \in {-1, 0}
    /\ obs[Pinger].got = <<>>

C10_Witness ==
    /\ written = <<2, Pinger, 1>>
    /\ \A c \in Clients : cpc[c] = "closed"
    /\ obs[2].got = <<IntTok(Lo(2) + 1)>>
    /\ obs[1].got = Expected(1)
    /\ obs[Pinger].falseAt = 0

\* Where the k-th request written to the connection starts.
RECURSIVE ReqStart(_)
ReqStart(k) ==
    IF k <= 1 THEN 1
    ELSE ReqStart(k - 1)
            + (IF k - 1 <= Len(written) THEN Len(ReqFrame(written[k - 1])) ELSE 0)

\* C11: the dispatch loop closes the arguments of a request after the
\* handler returns: no token of the request's reply is on the connection
\* before the parser stands past the request's frame, and whenever the
\* loop waits for the next request the parser stands at the first token
\* of that request's frame, whether or not the handler read every
\* argument or closed the arguments itself.
C11_ArgsClosedAfterHandler ==
    /\ srv.phase = "idle" => srv.pos = ReqStart(Len(frameStart) + 1)
    /\ \A k \in DOMAIN frameStart :
          Len(s2c) >= frameStart[k] => srv.pos >= ReqStart(k + 1)

C11_Witness ==
    /\ written = <<2, 1>>
    /\ Extra(2) > 0
    /\ Len(frameStart) = 1
    /\ srv.phase = "idle"
    /\ srv.closedBy = "framework"
    /\ srv.pos = ReqStart(2)
    /\ Len(s2c) = Len(Expected(2)) + 1

----------------------------------------------------------------------------
(* Properties of the server *)

\* C12: Serve returns only when Accept returned an error that is not
\* temporary, and then returns that very error; after a temporary error
\* (or a connection) the loop has not returned and stands at Accept again.
C12_ServeAcceptErrors ==
    /\ serve.pc = "returned"
          => /\ lastAccept.kind = "err"
             /\ ~Temporary(lastAccept.err)
             /\ serve.ret = lastAccept.err
    /\ (lastAccept.kind = "err" /\ ~Temporary(lastAccept.err)) => serve.pc = "returned"
    /\ (lastAccept.kind = "err" /\ Temporary(lastAccept.err))
          => serve.pc = "accept" /\ serve.ret = NoError

C12_Witness ==
    /\ listening
    /\ nAccepts = 3
    /\ conns = <<>>
    /\ serve = [pc |-> "returned", ret |-> [id |-> 2, temporary |-> FALSE]]

\* C13: a Shutdown called with a context that is already canceled returns
\* context.Canceled in the step of the call, whatever the Serve loop and
\* the connections are doing, and changes no connection's dispatch loop.
C13_ShutdownCanceled ==
    [][(shut.pc = "none" /\ shut'.pc # "none" /\ shut'.atCall = "canceled")
          => /\ shut'.pc = "returned"
             /\ shut'.ret = "Canceled"
             /\ conns' = conns]_vars

C13_Witness ==
    /\ shut.atCall = "canceled"
    /\ shut.pc = "returned"
    /\ shut.ret = "Canceled"
    /\ shut.busy = 1
    /\ conns = <<"idle">>

----------------------------------------------------------------------------
(* Properties of the pool *)

\* A request that asks while no connection is idle and the pool is at its
\* limit waits.
BlocksAtLimit ==
    \A r \in Requests :
        (req[r] = "new" /\ req'[r] # "new" /\ idle = 0 /\ idle + inuse = limit)
            => req'[r] = "blocked"

\* C14: the open connections to the address never exceed ConnsPerHost; a
\* request that finds no idle connection with the pool at the limit waits,
\* and a waiting request gets a connection in the end.
C14_PoolBoundAndBackpressure ==
    /\ [](idle + inuse <= limit)
    /\ [][BlocksAtLimit]_vars
    /\ \A r \in Requests : (req[r] = "blocked") ~> (req[r] = "using")

C14_Witness ==
    /\ limit = 1
    /\ idle + inuse = 1
    /\ req[1] = "done"
    /\ req[2] = "using"
    /\ req[3] = "blocked"

====
